---------------------------- MODULE Spec2Model ----------------------------
(***************************************************************************)
(* Model of the request / response / error-classification pipeline of      *)
(* processor-ai: the gateway handler (api/gemini.ts), the calling-side      *)
(* GeminiService (src/services/geminiService.ts) and the state of the page  *)
(* that calls it (src/App.tsx).                                             *)
(*                                                                          *)
(* JavaScript strings are sequences of characters, one TLA+ string per      *)
(* UTF-16 code unit; a non-ASCII character and the grave accent are written *)
(* uXXXX.  JavaScript values are records tagged by the field k.  An HTTP    *)
(* body on the wire is either JSON text, carried as the value it decodes    *)
(* to, or text that is not JSON (NonJson).                                  *)
(***************************************************************************)
EXTENDS Integers, Sequences, FiniteSets, TLC

VARIABLES
    env,            \* process.env of the gateway process: NODE_ENV, HTTP_PROXY, VERCEL
    call,           \* the GeminiService operation in progress, or NoCall
    cpc,            \* position of requestBackend: "idle", "awaiting", "done"
    gatewayCalls,   \* fetch('/api/gemini') calls issued by the current operation
    req,            \* the HTTP request the gateway handler is handling, or NoReq
    hpc,            \* position of handler: "idle", "received", "fetching", "done"
    fetchOptions,   \* options of the upstream fetch issued by the handler, or NoFetch
    upstreamCalls,  \* upstream fetch calls issued for the current request
    upstream,       \* how the upstream fetch settled, or NoOutcome
    res,            \* the handler's response {status, body}, or NoResponse
    escaped,        \* TRUE when the handler ended with an exception escaping
    reply,          \* how the service's fetch settled, or NoOutcome
    result,         \* the AnalysisResult the operation resolved to, or NoResult
    threw,          \* TRUE when the operation rejected instead of resolving
    activeTab,      \* App: the selected InputType
    videoMode,      \* App: the selected VideoMode
    textInput,      \* App: the text typed in the TEXT tab
    videoUrl,       \* App: the address typed in the VIDEO tab
    webUrl,         \* App: the address typed in the WEB tab
    fileData,       \* App: the FileData of the last file read, or Null
    status,         \* App: the ProcessingState {isAnalyzing, error, result}
    reading,        \* files handed to a FileReader whose onload has not run yet
    runs            \* handleProcess runs awaiting their service call, as the calls

coreVars == <<env, call, cpc, gatewayCalls, req, hpc, fetchOptions, upstreamCalls,
              upstream, res, escaped, reply, result, threw>>

uiVars == <<activeTab, videoMode, textInput, videoUrl, webUrl, fileData, status,
            reading, runs>>

vars == <<coreVars, uiVars>>

----------------------------------------------------------------------------
(* JavaScript values *)

Undefined == [k |-> "undefined"]
Null == [k |-> "null"]
Str(s) == [k |-> "string", s |-> s]
Num(n) == [k |-> "number", n |-> n]
Bool(b) == [k |-> "boolean", b |-> b]
Arr(a) == [k |-> "array", a |-> a]
Obj(o) == [k |-> "object", o |-> o]
EmptyObj == Obj(<<>>)

\* ToBoolean: what `!v`, `a || b` and `if (v)` test
Truthy(v) ==
    CASE v.k = "undefined" -> FALSE
      [] v.k = "null" -> FALSE
      [] v.k = "string" -> v.s # <<>>
      [] v.k = "number" -> v.n # 0
      [] v.k = "boolean" -> v.b
      [] OTHER -> TRUE

\* a || b
OrElse(a, b) == IF Truthy(a) THEN a ELSE b

\* reading a property of undefined or null throws a TypeError
Nullish(v) == v.k \in {"undefined", "null"}

\* v.key on a value that is not nullish
Get(v, key) ==
    IF v.k = "object" /\ key \in DOMAIN v.o THEN v.o[key] ELSE Undefined

\* v?.key
OptGet(v, key) == IF Nullish(v) THEN Undefined ELSE Get(v, key)

\* v?.[0]
OptFirst(v) ==
    CASE v.k = "array" /\ Len(v.a) >= 1 -> v.a[1]
      [] v.k = "string" /\ Len(v.s) >= 1 -> Str(<<v.s[1]>>)
      [] OTHER -> Undefined

\* "text"
k_text ==
    <<"t","e","x","t">>

\* "image"
k_image ==
    <<"i","m","a","g","e">>

\* "file"
k_file ==
    <<"f","i","l","e">>

\* "base64"
k_base64 ==
    <<"b","a","s","e","6","4">>

\* "mimeType"
k_mimeType ==
    <<"m","i","m","e","T","y","p","e">>

\* "ok"
k_ok ==
    <<"o","k">>

\* "error"
k_error ==
    <<"e","r","r","o","r">>

\* "message"
k_message ==
    <<"m","e","s","s","a","g","e">>

\* "raw"
k_raw ==
    <<"r","a","w">>

\* "inlineData"
k_inlineData ==
    <<"i","n","l","i","n","e","D","a","t","a">>

\* "data"
k_data ==
    <<"d","a","t","a">>

\* "candidates"
k_candidates ==
    <<"c","a","n","d","i","d","a","t","e","s">>

\* "content"
k_content ==
    <<"c","o","n","t","e","n","t">>

\* "parts"
k_parts ==
    <<"p","a","r","t","s">>

\* "summary"
k_summary ==
    <<"s","u","m","m","a","r","y">>

\* "keyPoints"
k_keyPoints ==
    <<"k","e","y","P","o","i","n","t","s">>

\* "conclusion"
k_conclusion ==
    <<"c","o","n","c","l","u","s","i","o","n">>

\* "detailedAnalysis"
k_detailedAnalysis ==
    <<"d","e","t","a","i","l","e","d","A","n","a","l","y","s","i","s">>

\* "METHOD_NOT_ALLOWED"
METHOD_NOT_ALLOWED ==
    <<"M","E","T","H","O","D","_","N","O","T","_","A","L","L","O","W","E","D">>

\* "INVALID_REQUEST"
INVALID_REQUEST ==
    <<"I","N","V","A","L","I","D","_","R","E","Q","U","E","S","T">>

\* "RATE_LIMIT"
RATE_LIMIT ==
    <<"R","A","T","E","_","L","I","M","I","T">>

\* "UPSTREAM_ERROR"
UPSTREAM_ERROR ==
    <<"U","P","S","T","R","E","A","M","_","E","R","R","O","R">>

\* "INTERNAL_ERROR"
INTERNAL_ERROR ==
    <<"I","N","T","E","R","N","A","L","_","E","R","R","O","R">>

\* "Gemini proxy is running"
MsgRunning ==
    <<"G","e","m","i","n","i"," ","p","r","o","x","y"," ","i","s"," ","r","u","n","n",
      "i","n","g">>

\* "仅支持 POST /api/gemini，请使用 POST 请求。当前方法: "
MsgMethodNotAllowed ==
    <<"u4EC5","u652F","u6301"," ","P","O","S","T"," ","/","a","p","i","/","g","e","m",
      "i","n","i","uFF0C","u8BF7","u4F7F","u7528"," ","P","O","S","T"," ","u8BF7",
      "u6C42","u3002","u5F53","u524D","u65B9","u6CD5",":"," ">>

\* "请求 body 不能为空，请至少提供 text、image 或 file.base64 其中之一。"
MsgInvalidRequest ==
    <<"u8BF7","u6C42"," ","b","o","d","y"," ","u4E0D","u80FD","u4E3A","u7A7A","uFF0C",
      "u8BF7","u81F3","u5C11","u63D0","u4F9B"," ","t","e","x","t","u3001","i","m","a",
      "g","e"," ","u6216"," ","f","i","l","e",".","b","a","s","e","6","4"," ","u5176",
      "u4E2D","u4E4B","u4E00","u3002">>

\* "Hello"
Hello ==
    <<"H","e","l","l","o">>

\* "image/jpeg"
ImageJpeg ==
    <<"i","m","a","g","e","/","j","p","e","g">>

\* "application/octet-stream"
OctetStream ==
    <<"a","p","p","l","i","c","a","t","i","o","n","/","o","c","t","e","t","-","s","t",
      "r","e","a","m">>

\* "Google Gemini API 调用额度已超限，请稍后重试或检查配额设置。"
MsgRateLimit ==
    <<"G","o","o","g","l","e"," ","G","e","m","i","n","i"," ","A","P","I"," ","u8C03",
      "u7528","u989D","u5EA6","u5DF2","u8D85","u9650","uFF0C","u8BF7","u7A0D","u540E",
      "u91CD","u8BD5","u6216","u68C0","u67E5","u914D","u989D","u8BBE","u7F6E","u3002">>

\* "上游服务返回错误: "
MsgUpstreamStatus ==
    <<"u4E0A","u6E38","u670D","u52A1","u8FD4","u56DE","u9519","u8BEF",":"," ">>

\* "Gemini 代理内部错误"
MsgInternalDefault ==
    <<"G","e","m","i","n","i"," ","u4EE3","u7406","u5185","u90E8","u9519","u8BEF">>

\* "contents"
k_contents ==
    <<"c","o","n","t","e","n","t","s">>

\* "GET"
GET ==
    <<"G","E","T">>

\* "POST"
POST ==
    <<"P","O","S","T">>

\* "PUT"
PUT ==
    <<"P","U","T">>

\* "DELETE"
DELETE ==
    <<"D","E","L","E","T","E">>

\* "Google Gemini API 调用额度已超限，请稍后再试。"
MsgLimitDefault ==
    <<"G","o","o","g","l","e"," ","G","e","m","i","n","i"," ","A","P","I"," ","u8C03",
      "u7528","u989D","u5EA6","u5DF2","u8D85","u9650","uFF0C","u8BF7","u7A0D","u540E",
      "u518D","u8BD5","u3002">>

\* "错误: API 额度超限"
SummaryRateLimit ==
    <<"u9519","u8BEF",":"," ","A","P","I"," ","u989D","u5EA6","u8D85","u9650">>

\* "请求失败（额度超限）"
ConclusionRateLimit ==
    <<"u8BF7","u6C42","u5931","u8D25","uFF08","u989D","u5EA6","u8D85","u9650","uFF09">>

\* "请求失败: "
MsgRequestFailedStatus ==
    <<"u8BF7","u6C42","u5931","u8D25",":"," ">>

\* "错误: "
ErrorPrefix ==
    <<"u9519","u8BEF",":"," ">>

\* "请求失败"
ConclusionFailed ==
    <<"u8BF7","u6C42","u5931","u8D25">>

\* "分析完成"
SummaryDefault ==
    <<"u5206","u6790","u5B8C","u6210">>

\* "解析完成"
ConclusionPlain ==
    <<"u89E3","u6790","u5B8C","u6210">>

\* "..."
Ellipsis ==
    <<".",".",".">>

\* "请分析这张图片的内容"
PromptImage ==
    <<"u8BF7","u5206","u6790","u8FD9","u5F20","u56FE","u7247","u7684","u5185","u5BB9">>

\* "请分析这份文档的内容"
PromptDocument ==
    <<"u8BF7","u5206","u6790","u8FD9","u4EFD","u6587","u6863","u7684","u5185","u5BB9">>

\* "请分析此网页内容："
PromptWebUrl ==
    <<"u8BF7","u5206","u6790","u6B64","u7F51","u9875","u5185","u5BB9","uFF1A">>

\* "请分析此视频内容："
PromptVideoUrl ==
    <<"u8BF7","u5206","u6790","u6B64","u89C6","u9891","u5185","u5BB9","uFF1A">>

\* "undefined"
StrUndefined ==
    <<"u","n","d","e","f","i","n","e","d">>

\* "null"
StrNull ==
    <<"n","u","l","l">>

\* "true"
StrTrue ==
    <<"t","r","u","e">>

\* "false"
StrFalse ==
    <<"f","a","l","s","e">>

\* "[object Object]"
StrObject ==
    <<"[","o","b","j","e","c","t"," ","O","b","j","e","c","t","]">>

\* "hi"
TextHi ==
    <<"h","i">>

\* "AAAA"
DataAAAA ==
    <<"A","A","A","A">>

\* "QUJD"
DataQUJD ==
    <<"Q","U","J","D">>

\* "data:image/png;base64,AAAA"
DataUrlPng ==
    <<"d","a","t","a",":","i","m","a","g","e","/","p","n","g",";","b","a","s","e","6",
      "4",",","A","A","A","A">>

\* "data:application/pdf;base64,QUJD"
DataUrlPdf ==
    <<"d","a","t","a",":","a","p","p","l","i","c","a","t","i","o","n","/","p","d","f",
      ";","b","a","s","e","6","4",",","Q","U","J","D">>

\* "application/pdf"
MimePdf ==
    <<"a","p","p","l","i","c","a","t","i","o","n","/","p","d","f">>

\* "audio/mpeg"
MimeMpeg ==
    <<"a","u","d","i","o","/","m","p","e","g">>

\* "video/mp4"
MimeMp4 ==
    <<"v","i","d","e","o","/","m","p","4">>

\* "https://a.io"
UrlSample ==
    <<"h","t","t","p","s",":","/","/","a",".","i","o">>

\* "quota exceeded"
MsgQuota ==
    <<"q","u","o","t","a"," ","e","x","c","e","e","d","e","d">>

\* "bad request"
MsgBad ==
    <<"b","a","d"," ","r","e","q","u","e","s","t">>

\* "Result: {\"summary\":\"S\",\"keyPoints\":[\"a\"],\"conclusion\":\"C\"}"
TextProse ==
    <<"R","e","s","u","l","t",":"," ","{","\"","s","u","m","m","a","r","y","\"",":",
      "\"","S","\"",",","\"","k","e","y","P","o","i","n","t","s","\"",":","[","\"","a",
      "\"","]",",","\"","c","o","n","c","l","u","s","i","o","n","\"",":","\"","C","\"",
      "}">>

\* "{\"summary\":\"S\",\"keyPoints\":[\"a\"],\"conclusion\":\"C\"}"
TextJson ==
    <<"{","\"","s","u","m","m","a","r","y","\"",":","\"","S","\"",",","\"","k","e","y",
      "P","o","i","n","t","s","\"",":","[","\"","a","\"","]",",","\"","c","o","n","c",
      "l","u","s","i","o","n","\"",":","\"","C","\"","}">>

\* "'''json\\n{\"summary\":\"S\",\"keyPoints\":[\"a\"],\"conclusion\":\"C\"}\\n'''"
TextFenced ==
    <<"u0060","u0060","u0060","j","s","o","n","\n","{","\"","s","u","m","m","a","r","y",
      "\"",":","\"","S","\"",",","\"","k","e","y","P","o","i","n","t","s","\"",":","[",
      "\"","a","\"","]",",","\"","c","o","n","c","l","u","s","i","o","n","\"",":","\"",
      "C","\"","}","\n","u0060","u0060","u0060">>

\* "{\"summary\":\"S\",\"detailedAnalysis\":\"D\"}"
TextDetailed ==
    <<"{","\"","s","u","m","m","a","r","y","\"",":","\"","S","\"",",","\"","d","e","t",
      "a","i","l","e","d","A","n","a","l","y","s","i","s","\"",":","\"","D","\"","}">>

\* "{}"
TextEmptyObject ==
    <<"{","}">>

\* "{\"summary\":\"S\""
TextBroken ==
    <<"{","\"","s","u","m","m","a","r","y","\"",":","\"","S","\"">>

\* "plain answer"
TextPlain ==
    <<"p","l","a","i","n"," ","a","n","s","w","e","r">>

\* "0123456789012345678901234567890123456789012345678901234567890123456789012345678901234567890123456789abcde"
TextLong ==
    <<"0","1","2","3","4","5","6","7","8","9","0","1","2","3","4","5","6","7","8","9",
      "0","1","2","3","4","5","6","7","8","9","0","1","2","3","4","5","6","7","8","9",
      "0","1","2","3","4","5","6","7","8","9","0","1","2","3","4","5","6","7","8","9",
      "0","1","2","3","4","5","6","7","8","9","0","1","2","3","4","5","6","7","8","9",
      "0","1","2","3","4","5","6","7","8","9","0","1","2","3","4","5","6","7","8","9",
      "a","b","c","d","e">>

\* "{\"summary\":7,\"keyPoints\":\"a\"}"
TextMistyped ==
    <<"{","\"","s","u","m","m","a","r","y","\"",":","7",",","\"","k","e","y","P","o",
      "i","n","t","s","\"",":","\"","a","\"","}">>

\* "data:image/png;base64,"
DataUrlEmpty ==
    <<"d","a","t","a",":","i","m","a","g","e","/","p","n","g",";","b","a","s","e","6",
      "4",",">>

\* "data:"
DataPrefix ==
    <<"d","a","t","a",":">>

\* ";base64,"
Base64Marker ==
    <<";","b","a","s","e","6","4",",">>

\* "a.png"
NamePng ==
    <<"a",".","p","n","g">>

\* "a.mp4"
NameMp4 ==
    <<"a",".","m","p","4">>

\* "a.pdf"
NamePdf ==
    <<"a",".","p","d","f">>

\* "a.txt"
NameTxt ==
    <<"a",".","t","x","t">>

\* "image/png"
MimePng ==
    <<"i","m","a","g","e","/","p","n","g">>

\* "text/plain"
MimeText ==
    <<"t","e","x","t","/","p","l","a","i","n">>

\* "image/"
PrefixImage ==
    <<"i","m","a","g","e","/">>

\* "audio/"
PrefixAudio ==
    <<"a","u","d","i","o","/">>

\* "video/"
PrefixVideo ==
    <<"v","i","d","e","o","/">>

\* ".pdf"
ExtPdf ==
    <<".","p","d","f">>

\* "aGk="
DataHi ==
    <<"a","G","k","=">>

\* "请输入文本内容或上传文件"
ErrNeedText ==
    <<"u8BF7","u8F93","u5165","u6587","u672C","u5185","u5BB9","u6216","u4E0A","u4F20",
      "u6587","u4EF6">>

\* "请上传图片文件"
ErrNeedImage ==
    <<"u8BF7","u4E0A","u4F20","u56FE","u7247","u6587","u4EF6">>

\* "请上传音频文件"
ErrNeedAudio ==
    <<"u8BF7","u4E0A","u4F20","u97F3","u9891","u6587","u4EF6">>

\* "请输入视频 URL"
ErrNeedVideoUrl ==
    <<"u8BF7","u8F93","u5165","u89C6","u9891"," ","U","R","L">>

\* "请上传本地视频文件"
ErrNeedVideoFile ==
    <<"u8BF7","u4E0A","u4F20","u672C","u5730","u89C6","u9891","u6587","u4EF6">>

\* "请输入网页链接 URL"
ErrNeedWebUrl ==
    <<"u8BF7","u8F93","u5165","u7F51","u9875","u94FE","u63A5"," ","U","R","L">>

\* "分析失败，请检查输入或重试"
MsgAnalysisFailed ==
    <<"u5206","u6790","u5931","u8D25","uFF0C","u8BF7","u68C0","u67E5","u8F93","u5165",
      "u6216","u91CD","u8BD5">>

\* line 65: aiResponse.substring(0, 100)
SummaryLength == 100

----------------------------------------------------------------------------
(* Strings *)

Digit == {"0", "1", "2", "3", "4", "5", "6", "7", "8", "9"}
DigitVal(c) == CHOOSE d \in 0..9 : <<"0","1","2","3","4","5","6","7","8","9">>[d + 1] = c
DigitChr(d) == <<"0","1","2","3","4","5","6","7","8","9">>[d + 1]

RECURSIVE NatToStr(_)
\* String(n) for an integer n >= 0
NatToStr(n) == IF n < 10 THEN <<DigitChr(n)>> ELSE NatToStr(n \div 10) \o <<DigitChr(n % 10)>>

\* s.includes(c) for a one-character c
Includes(s, c) == \E i \in 1..Len(s) : s[i] = c

\* s.substring(0, n)
Substring0(s, n) == SubSeq(s, 1, IF Len(s) < n THEN Len(s) ELSE n)

\* s starts with p at index i
StartsAt(s, i, p) == /\ i + Len(p) - 1 <= Len(s)
                     /\ \A j \in 1..Len(p) : s[i + j - 1] = p[j]

\* the markdown code-fence marker, three grave accents (U+0060)
Fence == <<"u0060", "u0060", "u0060">>
FenceJson == Fence \o <<"j", "s", "o", "n">>

\* the least element of a non-empty set of integers
Least(S) == CHOOSE n \in S : \A m \in S : n <= m

RECURSIVE StripFencesFrom(_, _)
\* the text from index i on, without the fence markers: the scan goes on from the
\* next marker, the leftmost match, after its longer alternative when it matches
StripFencesFrom(s, i) ==
    LET starts == {j \in i..Len(s) : StartsAt(s, j, Fence)}
    IN  IF starts = {} THEN SubSeq(s, i, Len(s))
        ELSE LET j == Least(starts)
             IN  SubSeq(s, i, j - 1)
                 \o StripFencesFrom(s, IF StartsAt(s, j, FenceJson)
                                       THEN j + Len(FenceJson) ELSE j + Len(Fence))

\* s.replace(/'''json|'''/g, '') where ' stands for the grave accent
StripFences(s) == StripFencesFrom(s, 1)

\* white space of String.prototype.trim and of JSON
WhiteSpace == {" ", "\n", "\t", "\r"}

\* s.trim()
Trim(s) ==
    LET keep == {i \in 1..Len(s) : s[i] \notin WhiteSpace}
    IN  IF keep = {} THEN <<>>
        ELSE SubSeq(s, Least(keep), CHOOSE i \in keep : \A j \in keep : i >= j)

----------------------------------------------------------------------------
(* JSON.parse: a recursive-descent parser of objects, arrays, strings with   *)
(* the escapes of quote, backslash, slash, n and t, non-negative integers,   *)
(* true, false and null.  A parse step returns [ok, v, i]: the value and the *)
(* index after it.                                                           *)

ParseFail == [ok |-> FALSE, v |-> Undefined, i |-> 0]
Parsed(v, i) == [ok |-> TRUE, v |-> v, i |-> i]

\* the index of the first character from i on that is not white space
SkipWs(s, i) == Least({j \in i..(Len(s) + 1) : j > Len(s) \/ s[j] \notin WhiteSpace})

RECURSIVE ParseChars(_, _, _)
\* the characters of a string literal whose opening quote precedes index i: up
\* to the closing quote, an escape or a control character, whichever is first
ParseChars(s, i, acc) ==
    LET marks == {j \in i..Len(s) : s[j] \in {"\"", "\\", "\n", "\t", "\r"}}
    IN  IF marks = {} THEN ParseFail
        ELSE LET j == Least(marks)
                 got == acc \o SubSeq(s, i, j - 1)
             IN  IF s[j] = "\"" THEN Parsed(Str(got), j + 1)
                 ELSE IF s[j] # "\\" \/ j + 1 > Len(s) THEN ParseFail
                 ELSE IF s[j + 1] \in {"\"", "\\", "/"}
                      THEN ParseChars(s, j + 2, got \o <<s[j + 1]>>)
                 ELSE IF s[j + 1] = "n" THEN ParseChars(s, j + 2, got \o <<"\n">>)
                 ELSE IF s[j + 1] = "t" THEN ParseChars(s, j + 2, got \o <<"\t">>)
                 ELSE ParseFail

RECURSIVE ParseDigits(_, _, _)
ParseDigits(s, i, n) ==
    IF i <= Len(s) /\ s[i] \in Digit THEN ParseDigits(s, i + 1, 10 * n + DigitVal(s[i]))
    ELSE Parsed(Num(n), i)

RECURSIVE ParseValue(_, _)
RECURSIVE ParseMembers(_, _, _)
RECURSIVE ParseElements(_, _, _)

\* the members of an object after `{` or `,`, up to and including `}`
ParseMembers(s, i, acc) ==
    LET j == SkipWs(s, i)
    IN  IF j > Len(s) \/ s[j] # "\"" THEN ParseFail
        ELSE LET key == ParseChars(s, j + 1, <<>>)
             IN  IF ~key.ok THEN ParseFail
                 ELSE LET c == SkipWs(s, key.i)
                      IN  IF c > Len(s) \/ s[c] # ":" THEN ParseFail
                          ELSE LET val == ParseValue(s, c + 1)
                               IN  IF ~val.ok THEN ParseFail
                                   ELSE LET e == SkipWs(s, val.i)
                                            more == (key.v.s :> val.v) @@ acc
                                        IN  IF e > Len(s) THEN ParseFail
                                            ELSE IF s[e] = "}" THEN Parsed(Obj(more), e + 1)
                                            ELSE IF s[e] = "," THEN ParseMembers(s, e + 1, more)
                                            ELSE ParseFail

\* the elements of an array after `[` or `,`, up to and including `]`
ParseElements(s, i, acc) ==
    LET val == ParseValue(s, i)
    IN  IF ~val.ok THEN ParseFail
        ELSE LET e == SkipWs(s, val.i)
                 more == Append(acc, val.v)
             IN  IF e > Len(s) THEN ParseFail
                 ELSE IF s[e] = "]" THEN Parsed(Arr(more), e + 1)
                 ELSE IF s[e] = "," THEN ParseElements(s, e + 1, more)
                 ELSE ParseFail

ParseValue(s, i) ==
    LET j == SkipWs(s, i)
    IN  IF j > Len(s) THEN ParseFail
        ELSE IF s[j] = "{" THEN
            (IF SkipWs(s, j + 1) <= Len(s) /\ s[SkipWs(s, j + 1)] = "}"
             THEN Parsed(EmptyObj, SkipWs(s, j + 1) + 1)
             ELSE ParseMembers(s, j + 1, <<>>))
        ELSE IF s[j] = "[" THEN
            (IF SkipWs(s, j + 1) <= Len(s) /\ s[SkipWs(s, j + 1)] = "]"
             THEN Parsed(Arr(<<>>), SkipWs(s, j + 1) + 1)
             ELSE ParseElements(s, j + 1, <<>>))
        ELSE IF s[j] = "\"" THEN ParseChars(s, j + 1, <<>>)
        ELSE IF s[j] = "0" /\ j + 1 <= Len(s) /\ s[j + 1] \in Digit THEN ParseFail
        ELSE IF s[j] \in Digit THEN ParseDigits(s, j, 0)
        ELSE IF StartsAt(s, j, <<"t", "r", "u", "e">>) THEN Parsed(Bool(TRUE), j + 4)
        ELSE IF StartsAt(s, j, <<"f", "a", "l", "s", "e">>) THEN Parsed(Bool(FALSE), j + 5)
        ELSE IF StartsAt(s, j, <<"n", "u", "l", "l">>) THEN Parsed(Null, j + 4)
        ELSE ParseFail

\* JSON.parse(s): [ok, v]; ok = FALSE stands for the SyntaxError it throws
JSONparse(s) ==
    LET r == ParseValue(s, 1)
    IN  IF r.ok /\ SkipWs(s, r.i) > Len(s) THEN [ok |-> TRUE, v |-> r.v]
        ELSE [ok |-> FALSE, v |-> Undefined]

----------------------------------------------------------------------------
(* The gateway handler, api/gemini.ts *)

\* a body that is not JSON text: response.json() throws on it
NonJson == [k |-> "nonjson"]

\* an Error object, by its message
Err(message) == [message |-> message]

\* messages of the exceptions the runtime raises (symbolic: the runtime words them)
ErrFetchFailed == <<"f", "e", "t", "c", "h", " ", "f", "a", "i", "l", "e", "d">>
ErrProxyAgent == <<"n", "o", " ", "a", "g", "e", "n", "t">>
ErrInvalidJson == <<"i", "n", "v", "a", "l", "i", "d", " ", "j", "s", "o", "n">>
ErrNullProperty == <<"n", "u", "l", "l", " ", "p", "r", "o", "p", "e", "r", "t", "y">>
ErrNotAFunction == <<"n", "o", "t", " ", "a", " ", "f", "u", "n", "c", "t", "i", "o", "n">>

NoReq == [method |-> <<>>, body |-> Undefined]
NoResponse == [status |-> 0, body |-> Undefined]
NoFetch == [method |-> <<>>, body |-> Undefined, agent |-> ""]
NoOutcome == [k |-> "none"]

\* res.status(status).json(body)
Response(statusCode, body) == [status |-> statusCode, body |-> body]

\* a completion of a block of code: it returns a value or throws an error
Return(r) == [k |-> "return", value |-> r]
Throw(e) == [k |-> "throw", error |-> e]

isLocal(e) == e.NODE_ENV = "development"
isVercel(e) == e.VERCEL # ""

\* response.ok
responseOk(statusCode) == statusCode >= 200 /\ statusCode <= 299

\* EarlyReturn without the method check of lines 23-28
EarlyReturn_AnyMethod(r) ==
    IF r.method = GET THEN
        Response(200, Obj((k_ok :> Bool(TRUE)) @@ (k_message :> Str(MsgRunning))))
    ELSE IF \/ ~Truthy(r.body)
            \/ /\ ~Truthy(Get(r.body, k_text))
               /\ ~Truthy(Get(r.body, k_image))
               /\ ~(/\ Truthy(Get(r.body, k_file))
                    /\ Truthy(Get(Get(r.body, k_file), k_base64)))
    THEN
        Response(400, Obj((k_error :> Str(INVALID_REQUEST))
                          @@ (k_message :> Str(MsgInvalidRequest))))
    ELSE NoResponse

\* EarlyReturn testing req.body.file instead of req.body.file.base64
EarlyReturn_FileOnly(r) ==
    IF r.method = GET THEN
        Response(200, Obj((k_ok :> Bool(TRUE)) @@ (k_message :> Str(MsgRunning))))
    ELSE IF r.method # POST THEN
        Response(405, Obj((k_error :> Str(METHOD_NOT_ALLOWED))
                          @@ (k_message :> Str(MsgMethodNotAllowed \o r.method))))
    ELSE IF \/ ~Truthy(r.body)
            \/ /\ ~Truthy(Get(r.body, k_text))
               /\ ~Truthy(Get(r.body, k_image))
               /\ ~Truthy(Get(r.body, k_file))
    THEN
        Response(400, Obj((k_error :> Str(INVALID_REQUEST))
                          @@ (k_message :> Str(MsgInvalidRequest))))
    ELSE NoResponse

\* lines 15-36: the responses sent before the try block; NoResponse when none is
EarlyReturn(r) ==
    IF r.method = GET THEN
        Response(200, Obj((k_ok :> Bool(TRUE)) @@ (k_message :> Str(MsgRunning))))
    ELSE IF r.method # POST THEN
        Response(405, Obj((k_error :> Str(METHOD_NOT_ALLOWED))
                          @@ (k_message :> Str(MsgMethodNotAllowed \o r.method))))
    ELSE IF \/ ~Truthy(r.body)
            \/ /\ ~Truthy(Get(r.body, k_text))
               /\ ~Truthy(Get(r.body, k_image))
               /\ ~(/\ Truthy(Get(r.body, k_file))
                    /\ Truthy(Get(Get(r.body, k_file), k_base64)))
    THEN
        Response(400, Obj((k_error :> Str(INVALID_REQUEST))
                          @@ (k_message :> Str(MsgInvalidRequest))))
    ELSE NoResponse

inlineData(mimeType, data) ==
    Obj(k_inlineData :> Obj((k_mimeType :> mimeType) @@ (k_data :> data)))

\* parts with the file's part ahead of the image's
parts_FileFirst(body) ==
    <<Obj(k_text :> OrElse(Get(body, k_text), Str(Hello)))>>
    \o (IF Truthy(Get(body, k_file)) /\ Truthy(Get(Get(body, k_file), k_base64))
        THEN <<inlineData(OrElse(Get(Get(body, k_file), k_mimeType), Str(OctetStream)),
                          Get(Get(body, k_file), k_base64))>>
        ELSE <<>>)
    \o (IF Truthy(Get(body, k_image))
        THEN <<inlineData(Str(ImageJpeg), Get(body, k_image))>>
        ELSE <<>>)

\* lines 63-87: contents[0].parts
parts(body) ==
    <<Obj(k_text :> OrElse(Get(body, k_text), Str(Hello)))>>
    \o (IF Truthy(Get(body, k_image))
        THEN <<inlineData(Str(ImageJpeg), Get(body, k_image))>>
        ELSE <<>>)
    \o (IF Truthy(Get(body, k_file)) /\ Truthy(Get(Get(body, k_file), k_base64))
        THEN <<inlineData(OrElse(Get(Get(body, k_file), k_mimeType), Str(OctetStream)),
                          Get(Get(body, k_file), k_base64))>>
        ELSE <<>>)

contents(body) == Arr(<<Obj(k_parts :> Arr(parts(body)))>>)

\* useProxy without the isLocal test of line 96
useProxy_AnyContext(e) == e.HTTP_PROXY # ""

\* lines 96-103: whether the proxy agent is attached
useProxy(e) == isLocal(e) /\ e.HTTP_PROXY # ""

\* lines 89-103: fetchOptions
buildFetchOptions(e, body) ==
    [method |-> POST,
     body |-> Obj(k_contents :> contents(body)),
     agent |-> IF useProxy(e) THEN e.HTTP_PROXY ELSE ""]

\* lines 126-131: the catch block
catch(error) ==
    Response(500, Obj((k_error :> Str(INTERNAL_ERROR))
                      @@ (k_message :> OrElse(Str(error.message), Str(MsgInternalDefault)))))

\* tryCatch letting the exception through
tryCatch_Rethrow(completion) == completion

\* lines 61, 126: try { ... } catch (error) { ... }
tryCatch(completion) ==
    IF completion.k = "throw" THEN Return(catch(completion.error)) ELSE completion

\* lines 108-123: the response for a decoded upstream body under a non-2xx status
classify(statusCode, data) ==
    IF statusCode = 429 THEN
        Return(Response(429, Obj((k_error :> Str(RATE_LIMIT))
                                 @@ (k_message :> Str(MsgRateLimit))
                                 @@ (k_raw :> data))))
    ELSE IF Nullish(data) THEN Throw(Err(ErrNullProperty))
    ELSE Return(Response(statusCode,
            Obj((k_error :> Str(UPSTREAM_ERROR))
                @@ (k_message :> OrElse(OptGet(Get(data, k_error), k_message),
                                  OrElse(Get(data, k_message),
                                         Str(MsgUpstreamStatus \o NatToStr(statusCode)))))
                @@ (k_raw :> data))))

\* afterFetch wrapping the upstream body on success instead of relaying it
afterFetch_Wrapped(o) ==
    IF o.k = "reject" THEN Throw(o.error)
    ELSE IF o.body = NonJson THEN Throw(Err(ErrInvalidJson))
    ELSE IF ~responseOk(o.status) THEN classify(o.status, o.body)
    ELSE Return(Response(200, Obj((k_ok :> Bool(TRUE)) @@ (k_data :> o.body))))

\* lines 105-125: the try block from the point the upstream fetch settles
afterFetch(o) ==
    IF o.k = "reject" THEN Throw(o.error)
    ELSE IF o.body = NonJson THEN Throw(Err(ErrInvalidJson))
    ELSE IF ~responseOk(o.status) THEN classify(o.status, o.body)
    ELSE Return(Response(200, o.body))

----------------------------------------------------------------------------
(* GeminiService, src/services/geminiService.ts *)

RECURSIVE ToStr(_)
RECURSIVE Join(_)
\* Array.prototype.join(): undefined and null elements give the empty string
Join(a) ==
    IF a = <<>> THEN <<>>
    ELSE (IF Nullish(Head(a)) THEN <<>> ELSE ToStr(Head(a)))
         \o (IF Len(a) > 1 THEN <<",">> \o Join(Tail(a)) ELSE <<>>)

\* String(v), the conversion a template literal applies to ${v}
ToStr(v) ==
    CASE v.k = "string" -> v.s
      [] v.k = "number" -> NatToStr(v.n)
      [] v.k = "boolean" -> IF v.b THEN StrTrue ELSE StrFalse
      [] v.k = "undefined" -> StrUndefined
      [] v.k = "null" -> StrNull
      [] v.k = "array" -> Join(v.a)
      [] OTHER -> StrObject

RECURSIVE JSONvalue(_)
\* JSON.parse(JSON.stringify(v)): members that are undefined are dropped from
\* objects and become null in arrays
JSONvalue(v) ==
    CASE v.k = "object" ->
            Obj([key \in {x \in DOMAIN v.o : v.o[x].k # "undefined"} |-> JSONvalue(v.o[key])])
      [] v.k = "array" ->
            Arr([n \in 1..Len(v.a) |->
                    IF v.a[n].k = "undefined" THEN Null ELSE JSONvalue(v.a[n])])
      [] OTHER -> v

\* base64.split(',')[1]
splitSecond(s) ==
    LET commas == {n \in 1..Len(s) : s[n] = ","}
        first == CHOOSE n \in commas : \A m \in commas : n <= m
        later == {n \in commas : n > first}
        stop == IF later = {} THEN Len(s) + 1
                ELSE CHOOSE n \in later : \A m \in later : n <= m
    IN  IF commas = {} THEN Undefined ELSE Str(SubSeq(s, first + 1, stop - 1))

FileOps == {"analyzeDocument", "analyzeAudioFile", "analyzeVideoFile"}

\* lines 82-115: the payload each operation hands to requestBackend
payload(c) ==
    CASE c.op = "analyzeText" -> Obj(k_text :> Str(c.arg))
      [] c.op = "analyzeImage" ->
            Obj((k_text :> Str(PromptImage))
                @@ (k_image :> OrElse(splitSecond(c.arg), Str(c.arg))))
      [] c.op \in FileOps ->
            Obj((k_text :> Str(PromptDocument))
                @@ (k_file :> Obj((k_base64 :> OrElse(splitSecond(c.arg), Str(c.arg)))
                                  @@ (k_mimeType :> Str(c.mimeType)))))
      [] c.op = "analyzeWebUrl" -> Obj(k_text :> Str(PromptWebUrl \o c.arg))
      [] c.op = "analyzeVideoUrl" -> Obj(k_text :> Str(PromptVideoUrl \o c.arg))

AnalysisResult(summary, keyPoints, conclusion, detailedAnalysis) ==
    [summary |-> summary, keyPoints |-> keyPoints, conclusion |-> conclusion,
     detailedAnalysis |-> detailedAnalysis]

NoResult == AnalysisResult(Undefined, Undefined, Undefined, Undefined)

\* lines 71-79: the catch block of requestBackend
catchResult(error) ==
    AnalysisResult(Str(ErrorPrefix \o ToStr(Str(error.message))), Arr(<<>>),
                   Str(ConclusionFailed), Str(error.message))

\* tryCatchResult letting the exception through
tryCatchResult_Rethrow(completion) == completion

\* lines 13, 71: try { ... } catch (error) { ... }
tryCatchResult(completion) ==
    IF completion.k = "throw" THEN Return(catchResult(completion.error)) ELSE completion

\* errorResult reporting the status only, whatever message the body carries
errorResult_StatusOnly(statusCode, data) ==
    IF Nullish(data) THEN Throw(Err(ErrNullProperty))
    ELSE IF statusCode = 429 \/ Get(data, k_error) = Str(RATE_LIMIT) THEN
        LET limitMessage == OrElse(Get(data, k_message), Str(MsgLimitDefault))
        IN  Return(AnalysisResult(Str(SummaryRateLimit), Arr(<<limitMessage>>),
                                  Str(ConclusionRateLimit), limitMessage))
    ELSE
        LET errorMessage == Str(MsgRequestFailedStatus \o NatToStr(statusCode))
        IN  Return(AnalysisResult(Str(ErrorPrefix \o ToStr(errorMessage)), Arr(<<>>),
                                  Str(ConclusionFailed), errorMessage))

\* lines 24-44: the result for a decoded body under a non-2xx status
errorResult(statusCode, data) ==
    IF Nullish(data) THEN Throw(Err(ErrNullProperty))
    ELSE IF statusCode = 429 \/ Get(data, k_error) = Str(RATE_LIMIT) THEN
        LET limitMessage == OrElse(Get(data, k_message), Str(MsgLimitDefault))
        IN  Return(AnalysisResult(Str(SummaryRateLimit), Arr(<<limitMessage>>),
                                  Str(ConclusionRateLimit), limitMessage))
    ELSE
        LET errorMessage == OrElse(OptGet(Get(data, k_error), k_message),
                            OrElse(Get(data, k_message),
                                   Str(MsgRequestFailedStatus \o NatToStr(statusCode))))
        IN  Return(AnalysisResult(Str(ErrorPrefix \o ToStr(errorMessage)), Arr(<<>>),
                                  Str(ConclusionFailed), errorMessage))

\* line 47: data.candidates?.[0]?.content?.parts?.[0]?.text || ""
aiResponseOf(data) ==
    OrElse(OptGet(OptFirst(OptGet(OptGet(OptFirst(Get(data, k_candidates)),
                                         k_content), k_parts)), k_text),
           Str(<<>>))

\* parseEmbedded without the removal of the code-fence markers
parseEmbedded_NoStrip(s) == JSONparse(Trim(s))

\* line 52: JSON.parse(aiResponse.replace(...).trim())
parseEmbedded(s) == JSONparse(Trim(StripFences(s)))

\* lines 50-62: the structured result; NoResult when the block falls through
\* (no brace, or an exception the inner catch swallows)
structured(aiResponse) ==
    IF aiResponse.k # "string" THEN NoResult
    ELSE IF ~Includes(aiResponse.s, "{") THEN NoResult
    ELSE LET parsed == parseEmbedded(aiResponse.s)
         IN  IF ~parsed.ok \/ Nullish(parsed.v) THEN NoResult
             ELSE AnalysisResult(OrElse(Get(parsed.v, k_summary), Str(SummaryDefault)),
                                 OrElse(Get(parsed.v, k_keyPoints), Arr(<<>>)),
                                 OrElse(Get(parsed.v, k_conclusion), Str(<<>>)),
                                 OrElse(Get(parsed.v, k_detailedAnalysis), aiResponse))

\* plain with the whole text as the summary
plain_WholeText(aiResponse) ==
    IF aiResponse.k # "string" THEN Throw(Err(ErrNotAFunction))
    ELSE Return(AnalysisResult(Str(aiResponse.s \o Ellipsis),
                               Arr(<<aiResponse>>), Str(ConclusionPlain), aiResponse))

\* lines 64-69: the plain-text result
plain(aiResponse) ==
    IF aiResponse.k # "string" THEN Throw(Err(ErrNotAFunction))
    ELSE Return(AnalysisResult(Str(Substring0(aiResponse.s, SummaryLength) \o Ellipsis),
                               Arr(<<aiResponse>>), Str(ConclusionPlain), aiResponse))

\* lines 46-69: the result for a decoded body under a 2xx status
successResult(data) ==
    IF Nullish(data) THEN Throw(Err(ErrNullProperty))
    ELSE LET aiResponse == aiResponseOf(data)
         IN  IF structured(aiResponse) # NoResult THEN Return(structured(aiResponse))
             ELSE plain(aiResponse)

\* lines 14-69: the try block from the point the fetch of /api/gemini settles
afterBackendFetch(r) ==
    IF r.k = "reject" THEN Throw(r.error)
    ELSE IF r.body = NonJson THEN Throw(Err(ErrInvalidJson))
    ELSE IF ~responseOk(r.status) THEN errorResult(r.status, r.body)
    ELSE successResult(r.body)

\* lines 12-80: what requestBackend resolves to (Return) or rejects with (Throw)
requestBackend(r) == tryCatchResult(afterBackendFetch(r))

----------------------------------------------------------------------------
(* The page: App.tsx *)

\* part_000 lines 1-7: enum InputType
InputTypes == {"TEXT", "IMAGE", "AUDIO", "VIDEO", "WEB"}

\* part_000 lines 9-12: enum VideoMode
VideoModes == {"URL", "FILE"}

\* part_000 lines 25-29: ProcessingState
ProcessingState(isAnalyzing, error, analysisResult) ==
    [isAnalyzing |-> isAnalyzing, error |-> error, result |-> analysisResult]

\* String.prototype.toLowerCase on the ASCII letters
toLowerCase(s) ==
    LET uppers == <<"A","B","C","D","E","F","G","H","I","J","K","L","M",
                    "N","O","P","Q","R","S","T","U","V","W","X","Y","Z">>
        lowers == <<"a","b","c","d","e","f","g","h","i","j","k","l","m",
                    "n","o","p","q","r","s","t","u","v","w","x","y","z">>
    IN  [i \in 1..Len(s) |->
            IF \E j \in 1..Len(uppers) : uppers[j] = s[i]
            THEN lowers[CHOOSE j \in 1..Len(uppers) : uppers[j] = s[i]]
            ELSE s[i]]

\* String.prototype.startsWith
startsWith(s, p) == Len(s) >= Len(p) /\ SubSeq(s, 1, Len(p)) = p

\* String.prototype.endsWith
endsWith(s, p) == Len(s) >= Len(p) /\ SubSeq(s, Len(s) - Len(p) + 1, Len(s)) = p

\* a file of the user's disk: its name, its type, its content read as text and
\* its content in base64
File(name, type, text, base64) ==
    [name |-> name, type |-> type, text |-> text, base64 |-> base64]

\* FileReader.readAsText
readAsText(file) == file.text

\* FileReader.readAsDataURL: a file without a type is application/octet-stream
readAsDataURL(file) ==
    DataPrefix \o (IF file.type = <<>> THEN OctetStream ELSE file.type)
    \o Base64Marker \o file.base64

\* lines 46-50: what the reader is asked for
readerResult(file) ==
    IF file.type = MimeText THEN readAsText(file) ELSE readAsDataURL(file)

\* lines 25-31: the FileData stored by onload
FileData(file) ==
    [name |-> file.name,
     type |-> file.type,
     base64 |-> readerResult(file),
     rawText |-> IF file.type = MimeText THEN Str(readerResult(file)) ELSE Undefined]

\* lines 34-43: the tab selected by onload
tabAfterLoad(file, tab) ==
    CASE startsWith(file.type, PrefixImage) -> "IMAGE"
      [] startsWith(file.type, PrefixAudio) -> "AUDIO"
      [] startsWith(file.type, PrefixVideo) -> "VIDEO"
      [] file.type = MimePdf \/ endsWith(toLowerCase(file.name), ExtPdf) -> "TEXT"
      [] OTHER -> tab

\* lines 38-40: the video mode selected by onload
modeAfterLoad(file, mode) ==
    IF /\ ~startsWith(file.type, PrefixImage)
       /\ ~startsWith(file.type, PrefixAudio)
       /\ startsWith(file.type, PrefixVideo)
    THEN "FILE" ELSE mode

\* a call of an operation of GeminiService, in the form of Calls
Invoke(op, arg, mimeType) ==
    [k |-> "await", call |-> [op |-> op, arg |-> arg, mimeType |-> mimeType]]

\* lines 58-85: handleProcess up to its await: the operation it calls, or the
\* input-validation error it throws
invoke(tab, mode, text, vUrl, wUrl, fd) ==
    CASE tab = "TEXT" ->
            IF fd # Null /\ fd.type = MimePdf
            THEN Invoke("analyzeDocument", fd.base64, fd.type)
            ELSE LET content == OrElse(Str(text),
                                       IF fd = Null THEN Undefined ELSE fd.rawText)
                 IN  IF ~Truthy(content) THEN Throw(Err(ErrNeedText))
                     ELSE Invoke("analyzeText", content.s, <<>>)
      [] tab = "IMAGE" ->
            IF fd = Null \/ ~startsWith(fd.type, PrefixImage)
            THEN Throw(Err(ErrNeedImage))
            ELSE Invoke("analyzeImage", fd.base64, <<>>)
      [] tab = "AUDIO" ->
            IF fd = Null \/ ~startsWith(fd.type, PrefixAudio)
            THEN Throw(Err(ErrNeedAudio))
            ELSE Invoke("analyzeAudioFile", fd.base64, fd.type)
      [] tab = "VIDEO" /\ mode = "URL" ->
            IF ~Truthy(Str(Trim(vUrl))) THEN Throw(Err(ErrNeedVideoUrl))
            ELSE Invoke("analyzeVideoUrl", vUrl, <<>>)
      [] tab = "VIDEO" /\ mode # "URL" ->
            IF fd = Null \/ ~startsWith(fd.type, PrefixVideo)
            THEN Throw(Err(ErrNeedVideoFile))
            ELSE Invoke("analyzeVideoFile", fd.base64, fd.type)
      [] tab = "WEB" ->
            IF ~Truthy(Str(Trim(wUrl))) THEN Throw(Err(ErrNeedWebUrl))
            ELSE Invoke("analyzeWebUrl", wUrl, <<>>)

\* line 54: the status set when handleProcess starts
Analyzing == ProcessingState(TRUE, Null, Null)

\* Completed ending the run with the busy flag still raised
Completed_StillBusy(completion) ==
    IF completion.k = "return"
    THEN ProcessingState(TRUE, Null, completion.value)
    ELSE ProcessingState(TRUE,
                         OrElse(Str(completion.error.message), Str(MsgAnalysisFailed)),
                         Null)

\* lines 86 and 89: the status set when the try block of handleProcess ends,
\* by the resolved call or by an exception
Completed(completion) ==
    IF completion.k = "return"
    THEN ProcessingState(FALSE, Null, completion.value)
    ELSE ProcessingState(FALSE,
                         OrElse(Str(completion.error.message), Str(MsgAnalysisFailed)),
                         Null)

\* line 118: setStatus(s => ({ ...s, result: null }))
withoutResult(s) == [s EXCEPT !.result = Null]

\* disabled with the analyse button always enabled
disabled_Never(s) == FALSE

\* line 299: disabled={status.isAnalyzing}
disabled(s) == s.isAnalyzing

\* lines 7-17: the initial state of the component
AppInit ==
    /\ activeTab = "TEXT"
    /\ videoMode = "URL"
    /\ textInput = <<>>
    /\ videoUrl = <<>>
    /\ webUrl = <<>>
    /\ fileData = Null
    /\ status = ProcessingState(FALSE, Null, Null)
    /\ reading = {}
    /\ runs = <<>>

----------------------------------------------------------------------------
(* Inputs *)

\* process.env as the handler reads it; "" stands for an unset variable
Envs == [NODE_ENV : {"development", "production", ""},
         HTTP_PROXY : {"", "http://127.0.0.1:7890"},
         VERCEL : {"", "1"}]

Methods == {GET, POST, PUT, DELETE}

FilePdf == Obj((k_base64 :> Str(DataQUJD)) @@ (k_mimeType :> Str(MimePdf)))

\* req.body of requests sent by clients other than GeminiService
DirectBodies ==
    {Undefined, Null, Str(<<>>), Str(TextHi), EmptyObj,
     Obj(k_text :> Str(<<>>)),
     Obj((k_text :> Str(<<>>)) @@ (k_image :> Str(<<>>))
         @@ (k_file :> Obj(k_base64 :> Str(<<>>)))),
     Obj(k_file :> EmptyObj),
     Obj(k_file :> Null),
     Obj(k_text :> Str(TextHi)),
     Obj(k_image :> Str(DataAAAA)),
     Obj(k_file :> Obj(k_base64 :> Str(DataQUJD))),
     Obj(k_file :> FilePdf),
     Obj((k_image :> Str(DataAAAA)) @@ (k_file :> FilePdf)),
     Obj((k_text :> Str(TextHi)) @@ (k_image :> Str(DataAAAA)) @@ (k_file :> FilePdf))}

\* the operations of GeminiService and their arguments
Calls ==
    [op : {"analyzeText"}, arg : {TextHi, <<>>}, mimeType : {<<>>}]
    \cup [op : {"analyzeImage"}, arg : {DataUrlPng, DataAAAA, DataUrlEmpty},
          mimeType : {<<>>}]
    \cup [op : {"analyzeDocument"}, arg : {DataUrlPdf, DataQUJD}, mimeType : {MimePdf}]
    \cup [op : {"analyzeAudioFile"}, arg : {DataQUJD}, mimeType : {MimeMpeg}]
    \cup [op : {"analyzeVideoFile"}, arg : {DataQUJD}, mimeType : {MimeMp4}]
    \cup [op : {"analyzeWebUrl", "analyzeVideoUrl"}, arg : {UrlSample}, mimeType : {<<>>}]

NoCall == [op |-> "none", arg |-> <<>>, mimeType |-> <<>>]

\* the text fragments the upstream model answers with
Texts == {TextProse, TextJson, TextFenced, TextDetailed, TextEmptyObject, TextBroken,
          TextMistyped, TextPlain, TextLong}

\* the upstream's generateContent body carrying one text fragment
Candidates(text) ==
    Obj(k_candidates :>
        Arr(<<Obj(k_content :> Obj(k_parts :> Arr(<<Obj(k_text :> Str(text))>>)))>>))

\* generateContent bodies in which the path to the first text fragment breaks
\* off at one level: no candidates, no first candidate, no content, no parts,
\* no first part, no text
MissingLevelBodies ==
    {EmptyObj,
     Obj(k_candidates :> Arr(<<>>)),
     Obj(k_candidates :> Arr(<<EmptyObj>>)),
     Obj(k_candidates :> Arr(<<Obj(k_content :> EmptyObj)>>)),
     Obj(k_candidates :> Arr(<<Obj(k_content :> Obj(k_parts :> Arr(<<>>)))>>)),
     Obj(k_candidates :> Arr(<<Obj(k_content :> Obj(k_parts :> Arr(<<EmptyObj>>)))>>))}

ErrorBodies ==
    {EmptyObj, Null, NonJson,
     Obj(k_error :> Obj(k_message :> Str(MsgQuota))),
     Obj(k_message :> Str(MsgBad))}

Rejected(message) == [k |-> "reject", error |-> Err(message)]
Answered(statusCode, body) ==
    [k |-> "response", status |-> statusCode, body |-> body]

\* how the upstream fetch can settle: the upstream service is a black box
UpstreamOutcomes ==
    {Rejected(ErrFetchFailed), Rejected(<<>>)}
    \cup {Answered(200, Candidates(t)) : t \in Texts}
    \cup {Answered(200, b) : b \in MissingLevelBodies \cup {Null, NonJson}}
    \cup {Answered(201, Candidates(TextPlain)), Answered(204, NonJson)}
    \cup {Answered(s, b) : s \in {400, 429, 503}, b \in ErrorBodies}

\* answers given to GeminiService by what stands between it and the handler
\* (the dev server's /api proxy, the hosting platform) without the handler running
IntermediaryReplies ==
    {Answered(502, NonJson), Answered(404, NonJson), Answered(200, NonJson),
     Answered(429, NonJson), Answered(429, EmptyObj), Answered(429, Null)}

\* reads a FileReader may have in progress at a time
MaxReads == 1

\* the files the user picks
Files ==
    {File(NamePng, MimePng, <<>>, DataAAAA),
     File(NameMp4, MimeMp4, <<>>, DataQUJD),
     File(NamePdf, MimePdf, <<>>, DataQUJD),
     File(NameTxt, MimeText, TextHi, DataHi)}

\* what the user types
TextInputs == {<<>>, TextHi}
VideoUrls == {<<>>, UrlSample}
WebUrls == {<<>>, UrlSample}

\* how the fetch of a run's service call settles
ServiceReplies ==
    {Answered(200, Candidates(TextJson)), Rejected(ErrFetchFailed)}

----------------------------------------------------------------------------
(* Actions *)

Init ==
    /\ env \in Envs
    /\ call = NoCall
    /\ cpc = "idle"
    /\ gatewayCalls = 0
    /\ req = NoReq
    /\ hpc = "idle"
    /\ fetchOptions = NoFetch
    /\ upstreamCalls = 0
    /\ upstream = NoOutcome
    /\ res = NoResponse
    /\ escaped = FALSE
    /\ reply = NoOutcome
    /\ result = NoResult
    /\ threw = FALSE
    /\ AppInit

\* the handler ends with a completion: a response sent, or an exception escaping
Finish(completion) ==
    /\ hpc' = "done"
    /\ res' = IF completion.k = "return" THEN completion.value ELSE NoResponse
    /\ escaped' = (completion.k = "throw")

\* requestBackend ends with a completion: it resolves or rejects
Settle(completion) ==
    /\ cpc' = "done"
    /\ result' = IF completion.k = "return" THEN completion.value ELSE NoResult
    /\ threw' = (completion.k = "throw")

\* a client other than GeminiService sends a request to /api/gemini
DirectRequest ==
    /\ cpc = "idle" /\ hpc = "idle"
    /\ \E m \in Methods, b \in DirectBodies : req' = [method |-> m, body |-> b]
    /\ hpc' = "received"
    /\ UNCHANGED <<env, call, cpc, gatewayCalls, fetchOptions, upstreamCalls, upstream,
                   res, escaped, reply, result, threw>>
    /\ UNCHANGED uiVars

\* geminiService.ts lines 12-20 and 82-115: an operation builds its payload and
\* requestBackend issues its fetch of /api/gemini
Analyze ==
    /\ cpc = "idle" /\ hpc = "idle"
    /\ \E c \in Calls :
        /\ call' = c
        /\ req' = [method |-> POST, body |-> JSONvalue(payload(c))]
    /\ cpc' = "awaiting"
    /\ gatewayCalls' = gatewayCalls + 1
    /\ hpc' = "received"
    /\ UNCHANGED <<env, fetchOptions, upstreamCalls, upstream, res, escaped, reply,
                   result, threw>>
    /\ UNCHANGED uiVars

\* gemini.ts lines 9-36: the handler answers without entering the try block
HandlerEarlyReturn ==
    /\ hpc = "received"
    /\ EarlyReturn(req) # NoResponse
    /\ Finish(Return(EarlyReturn(req)))
    /\ UNCHANGED <<env, call, cpc, gatewayCalls, req, fetchOptions, upstreamCalls,
                   upstream, reply, result, threw>>
    /\ UNCHANGED uiVars

\* gemini.ts lines 61-105: the handler builds the request and issues the upstream
\* fetch; importing https-proxy-agent or constructing the agent from the
\* configured address (lines 100-101), on the way, may throw
HandlerFetch ==
    /\ hpc = "received"
    /\ EarlyReturn(req) = NoResponse
    /\ \E attached \in BOOLEAN :
        IF useProxy(env) /\ ~attached
        THEN /\ Finish(tryCatch(Throw(Err(ErrProxyAgent))))
             /\ UNCHANGED <<fetchOptions, upstreamCalls>>
        ELSE /\ fetchOptions' = buildFetchOptions(env, req.body)
             /\ upstreamCalls' = upstreamCalls + 1
             /\ hpc' = "fetching"
             /\ UNCHANGED <<res, escaped>>
    /\ UNCHANGED <<env, call, cpc, gatewayCalls, req, upstream, reply, result, threw>>
    /\ UNCHANGED uiVars

\* HandlerAfterFetch issuing the upstream fetch again after a failure
HandlerAfterFetch_Retry ==
    /\ hpc = "fetching"
    /\ \E o \in UpstreamOutcomes :
        /\ upstream' = o
        /\ IF (o.k = "reject" \/ ~responseOk(o.status)) /\ upstreamCalls < 3
           THEN /\ upstreamCalls' = upstreamCalls + 1
                /\ UNCHANGED <<hpc, res, escaped>>
           ELSE /\ Finish(tryCatch(afterFetch(o)))
                /\ UNCHANGED upstreamCalls
    /\ UNCHANGED <<env, call, cpc, gatewayCalls, req, fetchOptions, reply, result, threw>>
    /\ UNCHANGED uiVars

\* gemini.ts lines 105-132: the upstream fetch settles and the handler answers
HandlerAfterFetch ==
    /\ hpc = "fetching"
    /\ \E o \in UpstreamOutcomes :
        /\ upstream' = o
        /\ Finish(tryCatch(afterFetch(o)))
    /\ UNCHANGED <<env, call, cpc, gatewayCalls, req, fetchOptions, upstreamCalls,
                   reply, result, threw>>
    /\ UNCHANGED uiVars

\* what GeminiService's fetch resolves to once the handler has ended: its
\* response, or the platform's 500 page when an exception escaped the handler
HandlerReply ==
    IF escaped THEN Answered(500, NonJson) ELSE Answered(res.status, JSONvalue(res.body))

\* geminiService.ts lines 14-79: the fetch resolves with the handler's response
BackendAnswered ==
    /\ cpc = "awaiting" /\ hpc = "done"
    /\ reply' = HandlerReply
    /\ Settle(requestBackend(HandlerReply))
    /\ UNCHANGED <<env, call, gatewayCalls, req, hpc, fetchOptions, upstreamCalls,
                   upstream, res, escaped>>
    /\ UNCHANGED uiVars

\* geminiService.ts lines 14-79: the fetch resolves with an answer that does not
\* come from the handler
BackendIntercepted ==
    /\ cpc = "awaiting" /\ hpc = "received"
    /\ \E r \in IntermediaryReplies :
        /\ reply' = r
        /\ Settle(requestBackend(r))
    /\ hpc' = "idle"
    /\ req' = NoReq
    /\ UNCHANGED <<env, call, gatewayCalls, fetchOptions, upstreamCalls, upstream, res,
                   escaped>>
    /\ UNCHANGED uiVars

\* geminiService.ts lines 14-79: the fetch rejects (the network is down)
BackendUnreachable ==
    /\ cpc = "awaiting" /\ hpc = "received"
    /\ reply' = Rejected(ErrFetchFailed)
    /\ Settle(requestBackend(Rejected(ErrFetchFailed)))
    /\ hpc' = "idle"
    /\ req' = NoReq
    /\ UNCHANGED <<env, call, gatewayCalls, fetchOptions, upstreamCalls, upstream, res,
                   escaped>>
    /\ UNCHANGED uiVars

\* the operation has resolved, or the direct request has been answered: the next
\* one starts from a clean slate (env is read-only after process start)
Reset ==
    /\ \/ cpc = "done"
       \/ cpc = "idle" /\ hpc = "done"
    /\ call' = NoCall
    /\ cpc' = "idle"
    /\ gatewayCalls' = 0
    /\ req' = NoReq
    /\ hpc' = "idle"
    /\ fetchOptions' = NoFetch
    /\ upstreamCalls' = 0
    /\ upstream' = NoOutcome
    /\ res' = NoResponse
    /\ escaped' = FALSE
    /\ reply' = NoOutcome
    /\ result' = NoResult
    /\ threw' = FALSE
    /\ UNCHANGED env
    /\ UNCHANGED uiVars

Next ==
    \/ DirectRequest
    \/ Analyze
    \/ HandlerEarlyReturn
    \/ HandlerFetch
    \/ HandlerAfterFetch
    \/ BackendAnswered
    \/ BackendIntercepted
    \/ BackendUnreachable
    \/ Reset

Spec == Init /\ [][Next]_vars

----------------------------------------------------------------------------
(* Properties *)

\* a field of a payload that is present: a non-empty string
Present(v) == v.k = "string" /\ v.s # <<>>

\* the request in hand is a POST that passed the validation of lines 23-36
ValidPost == req.method = POST /\ EarlyReturn(req) = NoResponse

\* the error kind of the handler's response
Kind == Get(res.body, k_error)

\* the handler's response is an envelope {error, message, raw} of the kind
Envelope(kind) ==
    /\ res.body.k = "object"
    /\ DOMAIN res.body.o = {k_error, k_message, k_raw}
    /\ Kind = Str(kind)

\* C1: a request whose method is not POST never triggers an upstream call; a GET
\* is answered 200 {ok: true, message} and any other method 405
\* METHOD_NOT_ALLOWED, whatever the body.
C1_NonPostNeverReachesUpstream ==
    (req # NoReq /\ req.method # POST) =>
        /\ upstreamCalls = 0
        /\ hpc # "fetching"
        /\ fetchOptions = NoFetch
        /\ hpc = "done" =>
            /\ ~escaped
            /\ IF req.method = GET
               THEN /\ res.status = 200
                    /\ DOMAIN res.body.o = {k_ok, k_message}
                    /\ Get(res.body, k_ok) = Bool(TRUE)
                    /\ Get(res.body, k_message).k = "string"
               ELSE /\ res.status = 405
                    /\ Kind = Str(METHOD_NOT_ALLOWED)

\* C1 witness: a DELETE carrying a payload that a POST would accept was answered
C1_Witness ==
    /\ hpc = "done"
    /\ req.method = DELETE
    /\ Present(Get(req.body, k_text))
    /\ res.status = 405

\* C2: a POST whose body is absent or has none of text, image and file.base64
\* present is answered 400 INVALID_REQUEST and no upstream call is issued.
C2_EmptyPostRejected ==
    (/\ req.method = POST
     /\ \/ req.body.k # "object"
        \/ /\ ~Present(Get(req.body, k_text))
           /\ ~Present(Get(req.body, k_image))
           /\ ~Present(OptGet(Get(req.body, k_file), k_base64))) =>
        /\ upstreamCalls = 0
        /\ hpc # "fetching"
        /\ fetchOptions = NoFetch
        /\ hpc = "done" =>
            /\ ~escaped
            /\ res.status = 400
            /\ Kind = Str(INVALID_REQUEST)

\* C2 witness: a POST whose body holds a file object without base64 was answered
C2_Witness ==
    /\ hpc = "done"
    /\ req.method = POST
    /\ req.body = Obj(k_file :> EmptyObj)
    /\ res.status = 400

\* C3: for every valid POST whose upstream call returns a non-2xx status the
\* handler answers with an envelope {error, message, raw}: status 429 and kind
\* RATE_LIMIT when the upstream status is 429, whatever the upstream body, and
\* kind UPSTREAM_ERROR with the upstream's status otherwise.
C3_UpstreamFailureClassified ==
    (/\ hpc = "done"
     /\ ValidPost
     /\ upstream.k = "response"
     /\ ~responseOk(upstream.status)) =>
        IF upstream.status = 429
        THEN res.status = 429 /\ Envelope(RATE_LIMIT)
        ELSE res.status = upstream.status /\ Envelope(UPSTREAM_ERROR)

\* C4 as claimed: for every valid POST whose upstream call returns a 2xx status
\* the handler answers 200 with exactly the upstream body.
C4_Original_EverySuccessRelayed ==
    (/\ hpc = "done"
     /\ ValidPost
     /\ upstream.k = "response"
     /\ responseOk(upstream.status)) =>
        /\ res.status = 200
        /\ res.body = upstream.body

\* C4, amended: for every valid POST whose upstream call returns a 2xx status and
\* a body that decodes as JSON the handler answers 200 with exactly the decoded
\* upstream body; a 2xx body that is not JSON is answered 500 INTERNAL_ERROR.
C4_JsonSuccessRelayed ==
    (/\ hpc = "done"
     /\ ValidPost
     /\ upstream.k = "response"
     /\ responseOk(upstream.status)) =>
        IF upstream.body # NonJson
        THEN res.status = 200 /\ res.body = upstream.body
        ELSE res.status = 500 /\ Kind = Str(INTERNAL_ERROR)

\* C4 witness: an upstream 201 carrying a generateContent body was relayed
C4_Witness ==
    /\ hpc = "done"
    /\ upstream = Answered(201, Candidates(TextPlain))
    /\ res.status = 200

\* the handler's try block raised an exception: the proxy agent could not be
\* attached (a valid POST ended without an upstream call), the upstream fetch
\* rejected, the upstream body could not be decoded, or a property of a null
\* body was read
Raised ==
    /\ hpc = "done"
    /\ ValidPost
    /\ \/ upstreamCalls = 0
       \/ upstream.k = "reject"
       \/ upstream.k = "response" /\ upstream.body = NonJson
       \/ /\ upstream.k = "response"
          /\ upstream.body = Null
          /\ ~responseOk(upstream.status)
          /\ upstream.status # 429

\* C5: any exception raised while the handler builds the request or performs the
\* transport is answered 500 INTERNAL_ERROR, and no invocation of the handler
\* ends with an exception escaping instead of a JSON response.
C5_ExceptionsAnswered500 ==
    /\ ~escaped
    /\ hpc = "done" => res # NoResponse /\ res.status # 0 /\ res.body.k # "undefined"
    /\ Raised =>
        /\ res.status = 500
        /\ Kind = Str(INTERNAL_ERROR)
        /\ Get(res.body, k_message).k = "string"
        /\ Get(res.body, k_message).s # <<>>

\* C5 witness: the upstream fetch rejected with an error that has no message
C5_Witness ==
    /\ hpc = "done"
    /\ upstream = Rejected(<<>>)
    /\ res.status = 500

\* the handler's response carries one of the five error kinds
Classified ==
    Kind \in {Str(INVALID_REQUEST), Str(METHOD_NOT_ALLOWED), Str(RATE_LIMIT),
              Str(UPSTREAM_ERROR), Str(INTERNAL_ERROR)}

\* C6 as claimed: an operation calls the gateway at most once and every valid
\* POST issues exactly one upstream call.
C6_Original_ExactlyOneUpstreamCall ==
    /\ gatewayCalls <= 1
    /\ upstreamCalls <= 1
    /\ (hpc = "done" /\ ValidPost) => upstreamCalls = 1

\* C6, amended: an operation calls the gateway at most once and a valid POST
\* issues at most one upstream call: exactly one unless attaching the proxy agent
\* threw before the call, in which case none is issued and the request is
\* answered 500 INTERNAL_ERROR.  After a failure of the upstream call no second
\* call is made and the failure is answered as a classified error.
C6_AtMostOneCallNoRetry ==
    /\ gatewayCalls <= 1
    /\ upstreamCalls <= 1
    /\ (cpc # "idle") => gatewayCalls = 1
    /\ (hpc = "done" /\ ValidPost) =>
        \/ upstreamCalls = 1
        \/ /\ upstreamCalls = 0
           /\ useProxy(env)
           /\ res.status = 500
           /\ Kind = Str(INTERNAL_ERROR)
    /\ (hpc = "done" /\ upstream.k = "reject") =>
        upstreamCalls = 1 /\ Classified
    /\ (hpc = "done" /\ upstream.k = "response" /\ ~responseOk(upstream.status)) =>
        upstreamCalls = 1 /\ Classified

\* C6 witness: an operation of the service ended after its one upstream call
\* was answered 503
C6_Witness ==
    /\ cpc = "done"
    /\ gatewayCalls = 1
    /\ upstream.k = "response"
    /\ upstream.status = 503
    /\ upstreamCalls = 1

\* C7: the upstream call carries the proxy agent if and only if NODE_ENV is
\* 'development' and a proxy address is configured.
C7_ProxyOnlyInDevelopment ==
    fetchOptions # NoFetch =>
        /\ fetchOptions.agent # "" <=>
            (env.NODE_ENV = "development" /\ env.HTTP_PROXY # "")
        /\ fetchOptions.agent \in {"", env.HTTP_PROXY}

\* C7 witness: an upstream call issued in production with a proxy configured
C7_Witness ==
    /\ hpc = "fetching"
    /\ env.NODE_ENV = "production"
    /\ env.HTTP_PROXY # ""
    /\ fetchOptions.agent = ""

\* C8: none of the seven operations rejects: whatever the outcome of the
\* transport call the operation resolves to an AnalysisResult, a failure giving
\* a result whose summary embeds the failure message.
C8_OperationsNeverThrow ==
    /\ ~threw
    /\ cpc = "done" =>
        /\ result # NoResult
        /\ result.summary.k # "undefined"
        /\ result.keyPoints.k # "undefined"
        /\ result.conclusion.k # "undefined"
        /\ reply.k = "reject" =>
            result.summary = Str(ErrorPrefix \o reply.error.message)
        /\ (reply.k = "response" /\ reply.body = NonJson) =>
            result.summary = Str(ErrorPrefix \o ErrInvalidJson)
        /\ (/\ reply.k = "response"
            /\ reply.status # 429
            /\ ~responseOk(reply.status)
            /\ reply.body.k = "object") =>
            result.summary = Str(ErrorPrefix \o Get(reply.body, k_message).s)

\* C8 witness: analyzeVideoFile resolved after its fetch rejected
C8_Witness ==
    /\ cpc = "done"
    /\ call.op = "analyzeVideoFile"
    /\ reply.k = "reject"
    /\ result.conclusion = Str(ConclusionFailed)

\* C9: every gateway response with status 429, whatever its body, is normalized
\* to a result whose summary is the quota summary and whose keyPoints holds the
\* server-supplied message, or the default quota message when there is none.
C9_Status429QuotaSummary ==
    (cpc = "done" /\ reply.k = "response" /\ reply.status = 429) =>
        /\ result.summary = Str(SummaryRateLimit)
        /\ result.keyPoints =
            Arr(<<IF Present(OptGet(reply.body, k_message))
                  THEN Get(reply.body, k_message)
                  ELSE Str(MsgLimitDefault)>>)

\* the structured result the claim names, around the raw text
StructuredSample(raw) ==
    AnalysisResult(Str(<<"S">>), Arr(<<Str(<<"a">>)>>), Str(<<"C">>), Str(raw))

\* the plain-text presentation of a text shorter than the summary length
PlainSample(raw) ==
    AnalysisResult(Str(raw \o Ellipsis), Arr(<<Str(raw)>>), Str(ConclusionPlain), Str(raw))

\* the operation ended on a 2xx reply whose first text fragment is the text
NormalizedText(text) ==
    /\ cpc = "done"
    /\ reply.k = "response"
    /\ responseOk(reply.status)
    /\ reply.body = Candidates(text)

\* C10 as claimed: a text fragment holding a JSON object inside prose,
\* Result: {"summary":"S","keyPoints":["a"],"conclusion":"C"}, is normalized to
\* the object's fields with detailedAnalysis the raw text.
C10_Original_ProseEmbeddedJson ==
    NormalizedText(TextProse) => result = StructuredSample(TextProse)

\* C10, amended: a text fragment that is a JSON object once code-fence markers
\* and surrounding white space are removed (the object alone, or inside a json
\* code fence) is normalized to the object's fields, detailedAnalysis falling
\* back to the raw text; with prose around the object the text does not parse
\* and gets the plain-text presentation.
C10_BareOrFencedJsonIsStructured ==
    /\ NormalizedText(TextJson) => result = StructuredSample(TextJson)
    /\ NormalizedText(TextFenced) => result = StructuredSample(TextFenced)
    /\ NormalizedText(TextProse) => result = PlainSample(TextProse)

\* C10 witness: the fenced object was normalized
C10_Witness ==
    /\ NormalizedText(TextFenced)
    /\ result.summary = Str(<<"S">>)

\* the text has no brace, or is not JSON once fence markers and surrounding
\* white space are taken off
Unstructured(text) ==
    \/ \A i \in 1..Len(text) : text[i] # "{"
    \/ ~JSONparse(Trim(StripFences(text))).ok

\* the plain-text presentation of a text: its first hundred characters and an
\* ellipsis, the text as the only key point, the fixed conclusion, the text
PlainText(text) ==
    AnalysisResult(
        Str((IF Len(text) <= SummaryLength THEN text ELSE SubSeq(text, 1, SummaryLength))
            \o Ellipsis),
        Arr(<<Str(text)>>), Str(ConclusionPlain), Str(text))

\* C11: a 2xx reply whose first text fragment has no brace or does not parse as
\* JSON is normalized to the plain-text presentation of that text; a 2xx reply
\* whose body lacks candidates, content, parts or text at some level is
\* normalized as the empty text, not as an error.
C11_PlainTextFallback ==
    (cpc = "done" /\ reply.k = "response" /\ responseOk(reply.status)) =>
        /\ \A t \in Texts :
            (reply.body = Candidates(t) /\ Unstructured(t)) => result = PlainText(t)
        /\ reply.body \in MissingLevelBodies => result = PlainText(<<>>)

\* C11 witness: a text longer than a hundred characters was cut for the summary
C11_Witness ==
    /\ NormalizedText(TextLong)
    /\ Len(TextLong) > SummaryLength
    /\ Len(result.summary.s) = SummaryLength + Len(Ellipsis)
    /\ result.keyPoints = Arr(<<Str(TextLong)>>)

\* the failure presentation of a message
FailureResult(message) ==
    AnalysisResult(Str(ErrorPrefix \o message), Arr(<<>>), Str(ConclusionFailed),
                   Str(message))

\* the error kinds of the gateway other than rate limiting
OtherKinds == {INVALID_REQUEST, METHOD_NOT_ALLOWED, UPSTREAM_ERROR, INTERNAL_ERROR}

\* the reply is an error envelope of one of the other kinds with a message string
OtherErrorEnvelope ==
    /\ reply.k = "response"
    /\ ~responseOk(reply.status)
    /\ reply.status # 429
    /\ reply.body.k = "object"
    /\ \E kind \in OtherKinds : Get(reply.body, k_error) = Str(kind)
    /\ Get(reply.body, k_message).k = "string"

\* the handler's answer to a request of another method than GET and POST, as
\* GeminiService would receive it
MethodNotAllowedReply ==
    LET r == EarlyReturn([method |-> PUT, body |-> Undefined])
    IN  Answered(r.status, JSONvalue(r.body))

\* C12: an error envelope of a kind other than rate limiting is normalized to
\* summary = the error prefix and the envelope's message, no key points, the
\* failure conclusion and detailedAnalysis = the message: the message reaches
\* the caller unchanged.
C12_ErrorEnvelopeMessageKept ==
    /\ (cpc = "done" /\ OtherErrorEnvelope) =>
        result = FailureResult(Get(reply.body, k_message).s)
    /\ (cpc = "done" /\ OtherErrorEnvelope /\ hpc = "done" /\ upstream.k = "reject") =>
        result.detailedAnalysis =
            (IF upstream.error.message = <<>> THEN Str(MsgInternalDefault)
             ELSE Str(upstream.error.message))
    /\ Get(MethodNotAllowedReply.body, k_error) = Str(METHOD_NOT_ALLOWED)
    /\ requestBackend(MethodNotAllowedReply) =
        Return(FailureResult(MsgMethodNotAllowed \o PUT))

\* C12 witness: the upstream's own message of a 503 reached the caller through
\* the handler's UPSTREAM_ERROR envelope
C12_Witness ==
    /\ cpc = "done"
    /\ OtherErrorEnvelope
    /\ reply.status = 503
    /\ Get(reply.body, k_error) = Str(UPSTREAM_ERROR)
    /\ upstream.body = Obj(k_error :> Obj(k_message :> Str(MsgQuota)))
    /\ result = FailureResult(MsgQuota)

\* the positions at which a ";base64," marker ends in a string
MarkerEnds(s) ==
    {i \in (Len(DataPrefix) + Len(Base64Marker))..Len(s) :
        SubSeq(s, i - Len(Base64Marker) + 1, i) = Base64Marker}

\* the string has the form data:<mime>;base64,<DATA>
IsDataUrl(s) ==
    /\ Len(s) >= Len(DataPrefix)
    /\ SubSeq(s, 1, Len(DataPrefix)) = DataPrefix
    /\ MarkerEnds(s) # {}

\* <DATA> of a data URL, and any other string as it is
WithoutPrefix(s) ==
    IF IsDataUrl(s) THEN SubSeq(s, Least(MarkerEnds(s)) + 1, Len(s)) ELSE s

\* C13: analyzeImage sends as image, and analyzeDocument as file.base64,
\* exactly <DATA> of an input data:<mime>;base64,<DATA>, and an input without
\* such a prefix unchanged.
C13_DataUrlPrefixStripped ==
    (cpc = "awaiting" /\ req # NoReq) =>
        /\ call.op = "analyzeImage" =>
            Get(req.body, k_image) = Str(WithoutPrefix(call.arg))
        /\ call.op = "analyzeDocument" =>
            Get(Get(req.body, k_file), k_base64) = Str(WithoutPrefix(call.arg))

\* C14: for a non-empty text, whatever the gateway's outcome, analyzeText
\* resolves to a result whose summary is a non-empty string and whose keyPoints
\* and conclusion are not undefined.
C14_AnalyzeTextFullyPopulated ==
    (cpc = "done" /\ call.op = "analyzeText" /\ call.arg # <<>>) =>
        /\ ~threw
        /\ result.summary.k = "string"
        /\ result.summary.s # <<>>
        /\ result.keyPoints.k # "undefined"
        /\ result.conclusion.k # "undefined"

\* a field of the payload is set: a string that is not empty
IsSet(v) == v.k = "string" /\ v.s # <<>>

\* the parts of the upstream request the handler issued
SentParts == Get(Get(fetchOptions.body, k_contents).a[1], k_parts).a

\* C15: the parts sent upstream for an accepted payload are one text part (the
\* payload's text, or "Hello" without one), then the image's inline-data part
\* with MIME type image/jpeg when image is set, then the file's inline-data
\* part with the payload's mimeType, or application/octet-stream without one,
\* when file.base64 is set: never empty, image before file.
C15_PartsOrder ==
    fetchOptions # NoFetch =>
        LET text == Get(req.body, k_text)
            image == Get(req.body, k_image)
            base64 == OptGet(Get(req.body, k_file), k_base64)
            mimeType == OptGet(Get(req.body, k_file), k_mimeType)
            n == Len(SentParts)
        IN  /\ n = 1 + (IF IsSet(image) THEN 1 ELSE 0) + (IF IsSet(base64) THEN 1 ELSE 0)
            /\ SentParts[1] = Obj(k_text :> (IF IsSet(text) THEN text ELSE Str(Hello)))
            /\ IsSet(image) =>
                SentParts[2] = inlineData(Str(ImageJpeg), image)
            /\ IsSet(base64) =>
                SentParts[n] =
                    inlineData(IF IsSet(mimeType) THEN mimeType ELSE Str(OctetStream),
                               base64)

\* C15 witness: a payload with image and file and no text went upstream as
\* three parts
C15_Witness ==
    /\ hpc = "fetching"
    /\ ~IsSet(Get(req.body, k_text))
    /\ IsSet(Get(req.body, k_image))
    /\ IsSet(OptGet(Get(req.body, k_file), k_base64))
    /\ Len(SentParts) = 3
    /\ SentParts[1] = Obj(k_text :> Str(Hello))

----------------------------------------------------------------------------
(* Actions of the page.  React applies the state updates of an event handler
   and renders again before the next event is handled, so each handler sees,
   and each button shows, the state left by the handlers before it. *)

\* line 118: a tab button is clicked
SelectTab(tab) ==
    /\ activeTab' = tab
    /\ status' = withoutResult(status)
    /\ UNCHANGED <<videoMode, textInput, videoUrl, webUrl, fileData, reading, runs>>
    /\ UNCHANGED coreVars

\* lines 222 and 228: a mode button of the VIDEO tab is clicked
setVideoMode(mode) ==
    /\ activeTab = "VIDEO"
    /\ videoMode' = mode
    /\ UNCHANGED <<activeTab, textInput, videoUrl, webUrl, fileData, status, reading,
                   runs>>
    /\ UNCHANGED coreVars

\* lines 154-164: the text area, shown in the TEXT tab unless a pdf is loaded
setTextInput(value) ==
    /\ activeTab = "TEXT"
    /\ ~(fileData # Null /\ fileData.type = MimePdf)
    /\ textInput' = value
    /\ UNCHANGED <<activeTab, videoMode, videoUrl, webUrl, fileData, status, reading,
                   runs>>
    /\ UNCHANGED coreVars

\* lines 232-243: the address field of the VIDEO tab in URL mode
setVideoUrl(value) ==
    /\ activeTab = "VIDEO" /\ videoMode = "URL"
    /\ videoUrl' = value
    /\ UNCHANGED <<activeTab, videoMode, textInput, webUrl, fileData, status, reading,
                   runs>>
    /\ UNCHANGED coreVars

\* line 282: the address field of the WEB tab
setWebUrl(value) ==
    /\ activeTab = "WEB"
    /\ webUrl' = value
    /\ UNCHANGED <<activeTab, videoMode, textInput, videoUrl, fileData, status, reading,
                   runs>>
    /\ UNCHANGED coreVars

\* lines 93-96: the remove button, shown beside the loaded file of the tab
clearFile ==
    /\ fileData # Null
    /\ \/ activeTab = "TEXT" /\ fileData.type = MimePdf
       \/ activeTab = "IMAGE" /\ startsWith(fileData.type, PrefixImage)
       \/ activeTab = "AUDIO" /\ startsWith(fileData.type, PrefixAudio)
       \/ activeTab = "VIDEO" /\ videoMode = "FILE"
          /\ startsWith(fileData.type, PrefixVideo)
    /\ fileData' = Null
    /\ UNCHANGED <<activeTab, videoMode, textInput, videoUrl, webUrl, status, reading,
                   runs>>
    /\ UNCHANGED coreVars

\* lines 19-23 and 46-50: a file is picked in a tab that has a file input and
\* handed to a FileReader
handleFileUpload(file) ==
    /\ \/ activeTab \in {"TEXT", "IMAGE", "AUDIO"}
       \/ activeTab = "VIDEO" /\ videoMode = "FILE"
    /\ Cardinality(reading) < MaxReads
    /\ reading' = reading \cup {file}
    /\ UNCHANGED <<activeTab, videoMode, textInput, videoUrl, webUrl, fileData, status,
                   runs>>
    /\ UNCHANGED coreVars

\* lines 24-44: the reader has read the file
onload(file) ==
    /\ file \in reading
    /\ reading' = reading \ {file}
    /\ fileData' = FileData(file)
    /\ activeTab' = tabAfterLoad(file, activeTab)
    /\ videoMode' = modeAfterLoad(file, videoMode)
    /\ UNCHANGED <<textInput, videoUrl, webUrl, status, runs>>
    /\ UNCHANGED coreVars

\* lines 53-85 and 88-90: the analyse button, enabled, is clicked; the run stops
\* at the await of its service call, or ends at once in the catch block with an
\* input-validation error
handleProcess ==
    /\ ~disabled(status)
    /\ LET c == invoke(activeTab, videoMode, textInput, videoUrl, webUrl, fileData)
       IN  IF c.k = "throw"
           THEN /\ status' = Completed(c)
                /\ UNCHANGED runs
           ELSE /\ status' = Analyzing
                /\ runs' = Append(runs, c.call)
    /\ UNCHANGED <<activeTab, videoMode, textInput, videoUrl, webUrl, fileData, reading>>
    /\ UNCHANGED coreVars

\* lines 60-90: the service call of a run settles and the run ends
handleProcessResumed(i, r) ==
    /\ i \in 1..Len(runs)
    /\ status' = Completed(requestBackend(r))
    /\ runs' = SubSeq(runs, 1, i - 1) \o SubSeq(runs, i + 1, Len(runs))
    /\ UNCHANGED <<activeTab, videoMode, textInput, videoUrl, webUrl, fileData, reading>>
    /\ UNCHANGED coreVars

\* the page alone: the gateway process it talks to is one deployed on the
\* hosting platform
InitApp ==
    /\ Init
    /\ env = [NODE_ENV |-> "production", HTTP_PROXY |-> "", VERCEL |-> "1"]

NextApp ==
    \/ \E tab \in InputTypes : SelectTab(tab)
    \/ \E mode \in VideoModes : setVideoMode(mode)
    \/ \E value \in TextInputs : setTextInput(value)
    \/ \E value \in VideoUrls : setVideoUrl(value)
    \/ \E value \in WebUrls : setWebUrl(value)
    \/ clearFile
    \/ \E file \in Files : handleFileUpload(file)
    \/ \E file \in Files : onload(file)
    \/ handleProcess
    \/ \E i \in 1..Len(runs), r \in ServiceReplies : handleProcessResumed(i, r)

SpecApp == InitApp /\ [][NextApp]_vars

----------------------------------------------------------------------------
(* Properties of the page *)

\* C16: the busy flag admits one analysis at a time: whatever the order of
\* analyse clicks, tab switches, file uploads and completions, at most one
\* handleProcess run awaits its service call, the flag is raised exactly while
\* one does, and a run starts only when none is in progress.
C16_OneRunInFlight ==
    /\ Len(runs) <= 1
    /\ status.isAnalyzing <=> Len(runs) = 1

\* C16 witness: an analysis of text is still in progress after a file upload
\* moved the page to the IMAGE tab and a second upload began
C16_Witness ==
    /\ Len(runs) = 1
    /\ runs[1].op = "analyzeText"
    /\ status.isAnalyzing
    /\ activeTab = "IMAGE"
    /\ fileData # Null
    /\ reading # {}

\* result and error are never both set, and neither is while analysing
StatusExclusive ==
    /\ ~(status.result # Null /\ status.error # Null)
    /\ status.isAnalyzing => (status.result = Null /\ status.error = Null)

\* a run that ends, by its service call or by an input-validation error, lowers
\* the busy flag; a tab switch clears result and leaves the rest of status
StatusStep ==
    /\ Len(runs') < Len(runs) => ~status'.isAnalyzing
    /\ (handleProcess /\ runs' = runs) =>
        (~status'.isAnalyzing /\ status'.error # Null /\ status'.result = Null)
    /\ \A tab \in InputTypes :
        SelectTab(tab) =>
            /\ status'.result = Null
            /\ status'.isAnalyzing = status.isAnalyzing
            /\ status'.error = status.error

\* C17: in every state of the page status.result and status.error are not both
\* non-null, and both are null while status.isAnalyzing; every handleProcess
\* run that ends, by its resolved service call or by a local input-validation
\* error, sets isAnalyzing back to false; a tab switch sets result to null and
\* leaves isAnalyzing and error as they were.
C17_StatusConsistent == []StatusExclusive /\ [][StatusStep]_vars

\* C17 witness: the validation error raised in the TEXT tab is still shown
\* after a switch to the WEB tab
C17_Witness ==
    /\ status.error = Str(ErrNeedText)
    /\ status.result = Null
    /\ ~status.isAnalyzing
    /\ activeTab = "WEB"
    /\ fileData = Null
    /\ reading = {}

=============================================================================
